---- MODULE Spec2Model ----
(***************************************************************************)
(* Workflow engine of deosha/aigateway (src/src/workflow-engine).          *)
(*                                                                         *)
(* One execution (= one checkpoint thread) is modelled: the execution      *)
(* record kept by WorkflowRepository, the StateGraph run started by        *)
(* WorkflowManager.start_execution -> BaseWorkflow.run -> graph.ainvoke,   *)
(* the run started by resume_execution -> BaseWorkflow.resume, and the     *)
(* pause / cancel requests that arrive while a run is awaited.             *)
(*                                                                         *)
(* graph.ainvoke is the StateGraph runtime the repository compiles its     *)
(* graphs with: bulk-synchronous supersteps, every node of a superstep     *)
(* reads the same channel values, the writes of a superstep are applied    *)
(* per field through the field's reducer in task-name order, one           *)
(* checkpoint is put for the input, one for the entry step and one after   *)
(* every superstep, and an edge declared with add_edge(a, b) triggers b    *)
(* in the superstep after every completion of a.                           *)
(***************************************************************************)
EXTENDS Integers, Sequences, FiniteSets, TLC

VARIABLES
    hasCheckpointer, \* create_checkpointer returned a saver (TRUE) or None
    template,        \* template of the execution, "none" before it is created
    oracle,          \* free: every external call may return anything; else the
                     \* fixed outputs of the nodes (failing, reply)
    status,          \* workflow_executions.status
    pc,              \* per task ("run", "resume"): where its coroutine stands
    lstate,          \* per task: channel values of its loop
    ready,           \* per task: nodes of the superstep being executed
    pending,         \* per task: nodes of the superstep that have not returned
    writes,          \* per task: <<[node, delta]>> in completion order
    step,            \* per task: number of the superstep being executed
    lhead,           \* per task: id of the checkpoint its loop wrote or loaded last
    checkpoints,     \* the thread's rows of the checkpoint store, in put order
    headSnap,        \* state snapshot and next nodes of the latest row
    execCount,       \* per task, per node: how often the node has executed
    sched,           \* per task: the ready sets of its supersteps, in order
    resumedFrom,     \* metadata step of the checkpoint resume loaded (-2: none)
    resumes,         \* resume requests accepted so far
    crashed,         \* the process died while the run was in flight
    mBase, mDeltas, mPerm, mOut1, mOut2, mpc, \* reducer check, see MergeSpec
    gQuery,          \* state.data_query of the query_data call under check
    gpc,             \* where that call of _query_data stands
    gDelta,          \* the partial state it returned
    gCalls,          \* the queries posted to the MCP client, in order
    reg,             \* ConnectionManager.active_connections
    sock,            \* per connection: new, open, stalled, closed, gone
    recv,            \* per connection: the broadcast messages written to it
    pub,             \* the messages passed to broadcast, in call order
    bc,              \* per publishing task: where its broadcast stands
    endpointSent,    \* the last message an endpoint coroutine sent, if any
    tokensReported,  \* the token usage the model calls of merged deltas reported
    rRouter,         \* the router under call
    rArg,            \* the state it is first called with
    rState,          \* that state object as the calls left it
    rOut,            \* the targets it returned, in call order
    rCalls           \* the calls it made to external clients

vars == <<hasCheckpointer, template, oracle, status, pc, lstate, ready, pending, writes,
          step, lhead, checkpoints, headSnap, execCount, sched, resumedFrom,
          resumes, crashed, mBase, mDeltas, mPerm, mOut1, mOut2, mpc,
          gQuery, gpc, gDelta, gCalls, reg, sock, recv, pub, bc, endpointSent,
          tokensReported, rRouter, rArg, rState, rOut, rCalls>>

engineVars == <<hasCheckpointer, template, oracle, status, pc, lstate, ready, pending,
                writes, step, lhead, checkpoints, headSnap, execCount, sched,
                resumedFrom, resumes, crashed, tokensReported>>

mergeVars == <<mBase, mDeltas, mPerm, mOut1, mOut2, mpc>>

gateVars == <<gQuery, gpc, gDelta, gCalls>>

wsVars == <<reg, sock, recv, pub, bc, endpointSent>>

\* the variables of the checks that stand beside the execution
routerVars == <<rRouter, rArg, rState, rOut, rCalls>>

auxVars == <<gateVars, wsVars, tokensReported, routerVars>>

-----------------------------------------------------------------------------
(* Bounds and constants *)

\* CodingAgentWorkflow.MAX_ITERATIONS
MAX_ITERATIONS == 5

\* graph.ainvoke is called without a recursion_limit: the runtime's default
RecursionLimit == 25

\* most results one brave_search response carries in the model
MaxWebResults == 2

\* most resume requests accepted for the execution
MaxResumes == 1

\* tokens the usage of one model call reports
TokensPerCall == 1

\* reducer check: most deltas of one superstep, largest summand
MaxDeltas == 3
MaxSummand == 2

None == "None"
END == "__end__"
Tasks == {"run", "resume"}

-----------------------------------------------------------------------------
(* Graphs: build_graph of the three templates, and two scenario graphs     *)
(* built the same way (add_node / add_edge per edge) by further            *)
(* subclasses of BaseWorkflow.                                             *)

Templates == {"research", "coding", "data_analysis"}
Scenarios == {"linear3", "uneven"}
Graphs == Templates \cup Scenarios

ResearchNodes ==
    {"parse_query", "search_web", "search_database", "analyze_results",
     "generate_report"}

ResearchEdges ==
    { <<"parse_query", "search_web">>, <<"parse_query", "search_database">>,
      <<"search_web", "analyze_results">>,
      <<"search_database", "analyze_results">>,
      <<"analyze_results", "generate_report">>, <<"generate_report", END>> }

CodingNodes ==
    {"understand_task", "read_code", "generate_code", "analyze_code",
     "finalize_code"}

\* add_edge calls; analyze_code has the conditional edges instead
CodingEdges ==
    { <<"understand_task", "read_code">>, <<"read_code", "generate_code">>,
      <<"generate_code", "analyze_code">>, <<"finalize_code", END>> }

DataAnalysisNodes ==
    {"parse_question", "query_data", "analyze_data", "generate_visualization",
     "summarize"}

DataAnalysisEdges ==
    { <<"parse_question", "query_data">>, <<"query_data", "analyze_data">>,
      <<"analyze_data", "generate_visualization">>,
      <<"generate_visualization", "summarize">>, <<"summarize", END>> }

\* A -> B -> C, A and B write {count: 1} into a field reduced with add
Linear3Nodes == {"A", "B", "C"}
Linear3Edges == { <<"A", "B">>, <<"B", "C">>, <<"C", END>> }

\* P -> {Q, R}, R -> S, and Q and S both lead to the join J
UnevenNodes == {"P", "Q", "R", "S", "J"}
UnevenEdges ==
    { <<"P", "Q">>, <<"P", "R">>, <<"R", "S">>, <<"Q", "J">>, <<"S", "J">>,
      <<"J", END>> }

Nodes(g) ==
    CASE g = "research" -> ResearchNodes
      [] g = "coding" -> CodingNodes
      [] g = "data_analysis" -> DataAnalysisNodes
      [] g = "linear3" -> Linear3Nodes
      [] g = "uneven" -> UnevenNodes
      [] OTHER -> {}

Edges(g) ==
    CASE g = "research" -> ResearchEdges
      [] g = "coding" -> CodingEdges
      [] g = "data_analysis" -> DataAnalysisEdges
      [] g = "linear3" -> Linear3Edges
      [] g = "uneven" -> UnevenEdges
      [] OTHER -> {}

EntryPoint(g) ==
    CASE g = "research" -> "parse_query"
      [] g = "coding" -> "understand_task"
      [] g = "data_analysis" -> "parse_question"
      [] g = "linear3" -> "A"
      [] g = "uneven" -> "P"

AllNodes == UNION { Nodes(g) : g \in Graphs }

\* the order in which the runtime applies the writes of one superstep:
\* by task name
NodeOrder(g) ==
    CASE g = "research" ->
           <<"analyze_results", "generate_report", "parse_query",
             "search_database", "search_web">>
      [] g = "coding" ->
           <<"analyze_code", "finalize_code", "generate_code", "read_code",
             "understand_task">>
      [] g = "data_analysis" ->
           <<"analyze_data", "generate_visualization", "parse_question",
             "query_data", "summarize">>
      [] g = "linear3" -> <<"A", "B", "C">>
      [] g = "uneven" -> <<"J", "P", "Q", "R", "S">>

-----------------------------------------------------------------------------
(* WorkflowState and its reducers (models/state.py) *)

\* faulty variants of merge_messages: one keeps the first non-empty list,
\* one keeps the last
merge_messages_first(left, right) == IF left = <<>> THEN right ELSE left

merge_messages_last(left, right) == right

merge_messages(left, right) ==
    IF left = <<>> THEN right
    ELSE IF right = <<>> THEN left
    ELSE left \o right

\* a dict is a set of <<key, value>> pairs with one pair per key
Keys(d) == { p[1] : p \in d }

merge_dicts(left, right) ==
    IF left = {} THEN right
    ELSE IF right = {} THEN left
    ELSE right \cup { p \in left : p[1] \notin Keys(right) }

\* faulty variant of last_value: a null write overwrites
last_value_overwrite(left, right) == right

last_value(left, right) == IF right # None THEN right ELSE left

\* faulty variant of add: the last write wins
add_last(left, right) == right

\* operator.add, the reducer of a sum field
add(left, right) == left + right

\* the reducer a field is annotated with; a field without one is a
\* last-value channel
Reduce(f, left, right) ==
    CASE f = "search_results" -> merge_messages(left, right)
      [] f = "intermediate_results" -> merge_dicts(left, right)
      [] f \in {"current_node", "output", "analysis"} -> last_value(left, right)
      [] f = "count" -> add(left, right)
      [] OTHER -> right

\* one node's partial state merged into the channel values
Merge(st, delta) ==
    [f \in DOMAIN st |->
        IF f \in DOMAIN delta THEN Reduce(f, st[f], delta[f]) ELSE st[f]]

\* BaseWorkflow.run: WorkflowState(input=..., messages=[...]), defaults otherwise
InitialState ==
    [ current_node |-> None, output |-> None, intermediate_results |-> {},
      search_results |-> <<>>, analysis |-> None, generated_code |-> None,
      code_analysis |-> None, iteration_count |-> 0, data_query |-> None,
      query_results |-> None, should_continue |-> TRUE, error |-> None,
      count |-> 0, node_states |-> {}, total_tokens |-> 0 ]

-----------------------------------------------------------------------------
(* Node functions of the templates.  An outcome is what the external call  *)
(* of the node did: ok = it returned, v = which reply it returned.         *)

RECURSIVE Rep(_)
Rep(k) == IF k = 0 THEN <<>> ELSE Append(Rep(k - 1), "web")

\* the except branch of a node: {"error": str(e), "should_continue": False}
ErrorDelta == [error |-> "err", should_continue |-> FALSE]

Replies(n) ==
    CASE n = "search_web" -> 0..MaxWebResults   \* results in the response
      [] n = "analyze_code" -> {0, 1}           \* 1: the review names an issue
      [] n = "parse_question" -> {0, 1, 2}      \* query: valid, rejected, empty
      [] n = "query_data" -> {0, 1}             \* 1: the query returned rows
      [] OTHER -> {0}

\* nodes whose body has no failing external call
NeverFails ==
    {"read_code", "finalize_code", "generate_visualization"} \cup Linear3Nodes
        \cup UnevenNodes

NodeOutcomes(n) ==
    { [ok |-> TRUE, v |-> r] : r \in Replies(n) }
        \cup (IF n \in NeverFails THEN {} ELSE { [ok |-> FALSE, v |-> 0] })

\* the outcomes of n under fixed node outputs orc: the call of orc.failing
\* raises, every other call returns reply orc.reply
FixedOutcomes(n, orc) ==
    IF n = orc.failing /\ n \notin NeverFails THEN { [ok |-> FALSE, v |-> 0] }
    ELSE { [ok |-> TRUE, v |-> IF orc.reply \in Replies(n) THEN orc.reply ELSE 0] }

Free == [ free |-> TRUE, failing |-> None, reply |-> 0 ]

\* the fixed outputs tried: no call fails or, in a research run, the call of
\* the entry point does, and every call returns its first reply or, where the
\* graph has no cycle, its second
Oracles(g) ==
    [ free : {FALSE},
      failing : {None} \cup (IF g = "research" THEN {EntryPoint(g)} ELSE {}),
      reply : IF g \in {"research", "data_analysis"} THEN {0, 1} ELSE {0} ]

ResearchNode(n, st, o) ==
    CASE n = "parse_query" ->
           IF o.ok
           THEN [ intermediate_results |-> { <<"parsed_query", "txt">> },
                  current_node |-> n ]
           ELSE ErrorDelta
      [] n = "search_web" ->
           IF o.ok
           THEN [ search_results |-> st.search_results \o Rep(o.v),
                  intermediate_results |-> { <<"web_results", "list">> },
                  current_node |-> n ]
           ELSE [ intermediate_results |-> { <<"web_results", "list">> } ]
      [] n = "search_database" ->
           IF o.ok
           THEN [ search_results |-> st.search_results \o <<"db">>,
                  intermediate_results |-> { <<"db_results", "list">> },
                  current_node |-> n ]
           ELSE [ intermediate_results |-> { <<"db_results", "list">> } ]
      [] n = "analyze_results" ->
           IF o.ok THEN [ analysis |-> "txt", current_node |-> n ]
           ELSE ErrorDelta
      [] n = "generate_report" ->
           IF o.ok
           THEN [ output |-> "report", current_node |-> n,
                  should_continue |-> FALSE ]
           ELSE ErrorDelta

\* _generate_code: the iteration counter is written on success only
generate_code(st, o) ==
    IF o.ok
    THEN [ generated_code |-> "code", current_node |-> "generate_code",
           iteration_count |-> st.iteration_count + 1 ]
    ELSE ErrorDelta

CodingNode(n, st, o) ==
    CASE n = "understand_task" ->
           IF o.ok
           THEN [ intermediate_results |-> { <<"task_analysis", "txt">> },
                  current_node |-> n ]
           ELSE ErrorDelta
      [] n = "read_code" -> [ current_node |-> n ]
      [] n = "generate_code" -> generate_code(st, o)
      [] n = "analyze_code" ->
           IF o.ok
           THEN [ code_analysis |-> IF o.v = 1 THEN "issues" ELSE "approved",
                  current_node |-> n ]
           ELSE ErrorDelta
      [] n = "finalize_code" ->
           [ output |-> "code", current_node |-> n, should_continue |-> FALSE ]

DataAnalysisNode(n, st, o) ==
    CASE n = "parse_question" ->
           IF o.ok
           THEN [ data_query |-> CASE o.v = 0 -> "valid"
                                   [] o.v = 1 -> "rejected"
                                   [] OTHER -> None,
                  intermediate_results |-> { <<"query_plan", "txt">> },
                  current_node |-> n ]
           ELSE ErrorDelta
      [] n = "query_data" ->
           IF st.data_query = None THEN ErrorDelta
           ELSE IF st.data_query = "rejected"
           THEN [ error |-> "err", should_continue |-> FALSE,
                  query_results |-> "empty" ]
           ELSE IF o.ok
           THEN [ query_results |-> IF o.v = 1 THEN "rows" ELSE "empty",
                  intermediate_results |-> { <<"row_count", "txt">> },
                  current_node |-> n ]
           ELSE [ query_results |-> "empty", current_node |-> n ]
      [] n = "analyze_data" ->
           IF st.query_results \in {None, "empty"}
           THEN [ analysis |-> "txt", current_node |-> n ]
           ELSE IF o.ok THEN [ analysis |-> "txt", current_node |-> n ]
           ELSE ErrorDelta
      [] n = "generate_visualization" ->
           IF st.query_results \in {None, "empty"}
           THEN [ current_node |-> n ]
           ELSE [ intermediate_results |-> { <<"viz_spec", "txt">> },
                  current_node |-> n ]
      [] n = "summarize" ->
           IF o.ok
           THEN [ output |-> "summary", current_node |-> n,
                  should_continue |-> FALSE ]
           ELSE ErrorDelta

ScenarioNode(n, st, o) ==
    IF n \in {"A", "B"} THEN [ count |-> 1 ] ELSE [ current_node |-> n ]

\* nodes that pass the token usage of their model call to update_node_state
TokenNodes ==
    {"analyze_results", "generate_report", "generate_code", "analyze_code",
     "analyze_data", "summarize"}

\* WorkflowState.update_node_state: it changes the object it is called on
update_node_state(st, n, tokens) ==
    [st EXCEPT !.node_states = @ \cup {n}, !.total_tokens = @ + tokens]

\* the call of node n reaches its state.update_node_state(...) line
CallsUpdate(g, n, st, o) ==
    CASE g \notin Templates -> FALSE
      [] n \in NeverFails -> TRUE
      [] n = "query_data" -> st.data_query = "valid" /\ o.ok
      [] n = "analyze_data" -> st.query_results \in {None, "empty"} \/ o.ok
      [] OTHER -> o.ok

\* the state object passed to node n as the node leaves it
NodeLeaves(g, n, st, o) ==
    IF CallsUpdate(g, n, st, o)
    THEN update_node_state(st, n,
             IF n \in TokenNodes
                   /\ ~(n = "analyze_data" /\ st.query_results \in {None, "empty"})
             THEN TokensPerCall ELSE 0)
    ELSE st

\* the partial state node n returns when called with channel values st
NodeFn(g, n, st, o) ==
    CASE g = "research" -> ResearchNode(n, st, o)
      [] g = "coding" -> CodingNode(n, st, o)
      [] g = "data_analysis" -> DataAnalysisNode(n, st, o)
      [] OTHER -> ScenarioNode(n, st, o)

-----------------------------------------------------------------------------
(* Edges and routers *)

\* CodingAgentWorkflow._should_iterate
should_iterate(st) ==
    IF st.iteration_count >= MAX_ITERATIONS THEN "finalize"
    ELSE IF st.code_analysis = "issues" THEN "iterate"
    ELSE "finalize"

\* the path map of add_conditional_edges("analyze_code", ...)
PathMap(r) == IF r = "iterate" THEN "generate_code" ELSE "finalize_code"

\* nodes triggered by the completion of n; st has the writes of n applied
Successors(g, n, st) ==
    { e[2] : e \in { d \in Edges(g) : d[1] = n /\ d[2] # END } }
        \cup (IF g = "coding" /\ n = "analyze_code"
              THEN { PathMap(should_iterate(st)) } ELSE {})

Range(s) == { s[i] : i \in 1..Len(s) }

DeltaOf(ws, n) == (CHOOSE w \in Range(ws) : w.node = n).delta

\* the writes of one superstep applied in task-name order
RECURSIVE ApplyWrites(_, _, _)
ApplyWrites(st, ws, order) ==
    IF order = <<>> THEN st
    ELSE LET n == Head(order)
         IN ApplyWrites(
                IF \E w \in Range(ws) : w.node = n
                THEN Merge(st, DeltaOf(ws, n)) ELSE st,
                ws, Tail(order))

\* the token usage the model calls of a superstep passed to update_node_state
RECURSIVE UsageOf(_)
UsageOf(ws) ==
    IF ws = <<>> THEN 0
    ELSE (Head(ws).left.total_tokens - Head(ws).arg.total_tokens) + UsageOf(Tail(ws))

\* faulty variants of NextReady: one follows the edges of the first write
\* only, one keeps the nodes of the superstep in the ready set
NextReadyFirst(g, st, ws) ==
    IF ws = <<>> THEN {}
    ELSE Successors(g, ws[1].node, Merge(st, ws[1].delta))

NextReadyKeep(g, st, ws) ==
    { w.node : w \in Range(ws) }
        \cup UNION { Successors(g, w.node, Merge(st, w.delta)) : w \in Range(ws) }

NextReady(g, st, ws) ==
    UNION { Successors(g, w.node, Merge(st, w.delta)) : w \in Range(ws) }

-----------------------------------------------------------------------------
(* The execution: WorkflowManager (main.py), the routes (api/routes.py)    *)
(* and the loop of graph.ainvoke (graphs/base.py)                          *)

NoCounts == [n \in AllNodes |-> 0]

HeadId == IF checkpoints = <<>> THEN 0 ELSE checkpoints[Len(checkpoints)].id

\* one row of the checkpoint store: its id, its parent and its metadata step;
\* the state snapshot of the latest row is headSnap
Checkpoint(parent, k) ==
    [ id |-> Len(checkpoints) + 1, parent |-> parent, step |-> k ]

\* faulty variant of Snapshot: the next nodes are not persisted
SnapshotNoNext(values, next) == [ values |-> values, next |-> {} ]

Snapshot(values, next) == [ values |-> values, next |-> next ]

\* the superstep at which ainvoke gives up: recursion_limit steps past the
\* step the loop started from
StepLimit(l) ==
    IF l = "run" THEN RecursionLimit ELSE resumedFrom + 2 + RecursionLimit

EngineInit ==
    /\ hasCheckpointer \in BOOLEAN
    /\ tokensReported = 0
    /\ template = "none"
    /\ oracle = Free
    /\ status = "none"
    /\ pc = [l \in Tasks |-> "idle"]
    /\ lstate = [l \in Tasks |-> InitialState]
    /\ ready = [l \in Tasks |-> {}]
    /\ pending = [l \in Tasks |-> {}]
    /\ writes = [l \in Tasks |-> <<>>]
    /\ step = [l \in Tasks |-> 0]
    /\ lhead = [l \in Tasks |-> 0]
    /\ checkpoints = <<>>
    /\ headSnap = Snapshot(InitialState, {})
    /\ execCount = [l \in Tasks |-> NoCounts]
    /\ sched = [l \in Tasks |-> <<>>]
    /\ resumedFrom = -2
    /\ resumes = 0
    /\ crashed = FALSE

MergeIdle ==
    /\ mBase = <<>>
    /\ mDeltas = <<>>
    /\ mPerm = <<>>
    /\ mOut1 = <<>>
    /\ mOut2 = <<>>
    /\ mpc = "off"

\* the execution stream, see WsSpec
\* most calls of send_execution_update
MaxPublishes == 2

Threads == {"t1", "t2"}
Conns == {"c1", "c2", "c3"}
Publishers == {"p1", "p2"}

\* the clients that may stop reading
SlowConns == {"c1"}

\* the execution id in the path of the connection
ConnThread(c) == IF c = "c3" THEN "t2" ELSE "t1"

\* the update types the callers of send_execution_update pass
UpdateTypes == {"status", "error"}

JsonMessage(ty, id, k) ==
    [ json |-> TRUE, type |-> ty, execution_id |-> id, seq |-> k ]

\* websocket.send_text("pong")
PongText == [ json |-> FALSE, type |-> "pong", execution_id |-> None, seq |-> 0 ]

IdleBroadcast ==
    [ pc |-> "idle", thread |-> None, msg |-> None, conns |-> {}, cur |-> None,
      todo |-> {}, failed |-> {} ]

WsInit ==
    /\ reg = << >>
    /\ sock = [c \in Conns |-> "new"]
    /\ recv = [c \in Conns |-> <<>>]
    /\ pub = <<>>
    /\ bc = [p \in Publishers |-> IdleBroadcast]
    /\ endpointSent = <<>>

RouterIdle ==
    /\ rRouter = None
    /\ rArg = None
    /\ rState = None
    /\ rOut = <<>>
    /\ rCalls = <<>>

GateIdle ==
    /\ gQuery = <<>>
    /\ gpc = "off"
    /\ gDelta = <<>>
    /\ gCalls = <<>>

\* start_execution: the execution record is created PENDING
CreateExecution(t, orc) ==
    /\ status = "none"
    /\ pc["run"] = "idle"
    /\ ~crashed
    /\ template' = t
    /\ oracle' = orc
    /\ status' = "pending"
    /\ pc' = [pc EXCEPT !["run"] = "created"]
    /\ UNCHANGED <<mergeVars, auxVars, hasCheckpointer, lstate, ready, pending, writes, step, lhead,
                   checkpoints, headSnap, execCount, sched, resumedFrom, resumes, crashed>>

\* start_execution: update_execution(status="running")
MarkRunning ==
    /\ pc["run"] = "created"
    /\ status' = "running"
    /\ pc' = [pc EXCEPT !["run"] = "get_workflow"]
    /\ UNCHANGED <<mergeVars, auxVars, oracle, hasCheckpointer, template, lstate, ready, pending, writes,
                   step, lhead, checkpoints, headSnap, execCount, sched, resumedFrom,
                   resumes, crashed>>

\* start_execution: _get_workflow raises for a template without a graph;
\* otherwise BaseWorkflow.run compiles the graph and ainvoke puts the input
\* checkpoint and the checkpoint of the entry step and schedules the entry point
RunBegin ==
    /\ pc["run"] = "get_workflow"
    /\ IF template \notin Graphs
       THEN /\ pc' = [pc EXCEPT !["run"] = "raised"]
            /\ UNCHANGED <<lstate, ready, pending, writes, step, lhead,
                           checkpoints, headSnap, sched>>
       ELSE LET entry == { EntryPoint(template) }
                c1 == Checkpoint(0, -1)
                c2 == [ id |-> c1.id + 1, parent |-> c1.id, step |-> 0 ]
            IN /\ pc' = [pc EXCEPT !["run"] = "superstep"]
               /\ lstate' = [lstate EXCEPT !["run"] = InitialState]
               /\ ready' = [ready EXCEPT !["run"] = entry]
               /\ pending' = [pending EXCEPT !["run"] = entry]
               /\ writes' = [writes EXCEPT !["run"] = <<>>]
               /\ step' = [step EXCEPT !["run"] = 1]
               /\ sched' = [sched EXCEPT !["run"] = <<entry>>]
               /\ IF hasCheckpointer
                  THEN /\ checkpoints' = checkpoints \o <<c1, c2>>
                       /\ headSnap' = Snapshot(InitialState, entry)
                       /\ lhead' = [lhead EXCEPT !["run"] = c2.id]
                  ELSE UNCHANGED <<checkpoints, headSnap, lhead>>
    /\ UNCHANGED <<mergeVars, auxVars, oracle, hasCheckpointer, template, status, execCount, resumedFrom,
                   resumes, crashed>>

\* one node of the superstep is called with a state object built from the
\* loop's channel values (arg) and returns; left is that object afterwards
NodeComplete(l, n, o) ==
    /\ pc[l] = "superstep"
    /\ n \in pending[l]
    /\ o \in (IF oracle.free THEN NodeOutcomes(n) ELSE FixedOutcomes(n, oracle))
    /\ writes' = [writes EXCEPT ![l] =
                    Append(@, [ node |-> n,
                                delta |-> NodeFn(template, n, lstate[l], o),
                                arg |-> lstate[l],
                                left |-> NodeLeaves(template, n, lstate[l], o) ])]
    /\ pending' = [pending EXCEPT ![l] = @ \ {n}]
    /\ execCount' = [execCount EXCEPT ![l][n] = @ + 1]
    /\ UNCHANGED <<mergeVars, auxVars, oracle, hasCheckpointer, template, status, pc, lstate, ready, step,
                   lhead, checkpoints, headSnap, sched, resumedFrom, resumes, crashed>>

\* the barrier of a superstep: the writes are merged, the checkpoint is put,
\* the next ready set is computed; without one ainvoke returns, and past the
\* recursion limit it raises
Commit(l) ==
    /\ pc[l] = "superstep"
    /\ pending[l] = {}
    /\ LET new == ApplyWrites(lstate[l], writes[l], NodeOrder(template))
           nxt == NextReady(template, lstate[l], writes[l])
           c == Checkpoint(lhead[l], step[l])
       IN /\ lstate' = [lstate EXCEPT ![l] = new]
          /\ tokensReported' = tokensReported + UsageOf(writes[l])
          /\ writes' = [writes EXCEPT ![l] = <<>>]
          /\ IF hasCheckpointer
             THEN /\ checkpoints' = Append(checkpoints, c)
                  /\ headSnap' = Snapshot(new, nxt)
                  /\ lhead' = [lhead EXCEPT ![l] = c.id]
             ELSE UNCHANGED <<checkpoints, headSnap, lhead>>
          /\ IF nxt = {}
             THEN /\ pc' = [pc EXCEPT ![l] = "returned"]
                  /\ ready' = [ready EXCEPT ![l] = {}]
                  /\ UNCHANGED <<pending, step, sched>>
             ELSE IF step[l] >= StepLimit(l)
             THEN /\ pc' = [pc EXCEPT ![l] = "raised"]
                  /\ ready' = [ready EXCEPT ![l] = {}]
                  /\ UNCHANGED <<pending, step, sched>>
             ELSE /\ ready' = [ready EXCEPT ![l] = nxt]
                  /\ pending' = [pending EXCEPT ![l] = nxt]
                  /\ step' = [step EXCEPT ![l] = @ + 1]
                  /\ sched' = [sched EXCEPT ![l] = Append(@, nxt)]
                  /\ UNCHANGED pc
    /\ UNCHANGED <<mergeVars, gateVars, wsVars, routerVars, oracle, hasCheckpointer, template, status, execCount, resumedFrom,
                   resumes, crashed>>

\* ainvoke returned: update_execution(status="completed", ...)
Finish(l) ==
    /\ pc[l] = "returned"
    /\ status' = "completed"
    /\ pc' = [pc EXCEPT ![l] = "done"]
    /\ UNCHANGED <<mergeVars, auxVars, oracle, hasCheckpointer, template, lstate, ready, pending, writes,
                   step, lhead, checkpoints, headSnap, execCount, sched, resumedFrom,
                   resumes, crashed>>

\* the except branch: update_execution(status="failed", error=...)
Fail(l) ==
    /\ pc[l] = "raised"
    /\ status' = "failed"
    /\ pc' = [pc EXCEPT ![l] = "done"]
    /\ UNCHANGED <<mergeVars, auxVars, oracle, hasCheckpointer, template, lstate, ready, pending, writes,
                   step, lhead, checkpoints, headSnap, execCount, sched, resumedFrom,
                   resumes, crashed>>

\* WorkflowManager.pause_execution: update_execution(status="paused")
Pause ==
    /\ status # "none"
    /\ status' = "paused"
    /\ UNCHANGED <<mergeVars, auxVars, oracle, hasCheckpointer, template, pc, lstate, ready, pending, writes,
                   step, lhead, checkpoints, headSnap, execCount, sched, resumedFrom,
                   resumes, crashed>>

\* routes.cancel_execution: update_execution(status="cancelled")
Cancel ==
    /\ status # "none"
    /\ status' = "cancelled"
    /\ UNCHANGED <<mergeVars, auxVars, oracle, hasCheckpointer, template, pc, lstate, ready, pending, writes,
                   step, lhead, checkpoints, headSnap, execCount, sched, resumedFrom,
                   resumes, crashed>>

\* the looser check: any execution that exists is resumed
ResumeAcceptedAny(st) == st # "none"

\* resume_execution: the check of the record it read
ResumeAccepted(st) == st = "paused"

\* the resume handler is not in flight
ResumeAtRest == pc["resume"] \in {"idle", "done", "rejected"}

\* resume_execution: accepted only for a PAUSED execution, which it marks running
ResumeRequest ==
    /\ ResumeAccepted(status)
    /\ ResumeAtRest
    /\ resumes < MaxResumes
    /\ status' = "running"
    /\ resumes' = resumes + 1
    /\ pc' = [pc EXCEPT !["resume"] = "loading"]
    /\ UNCHANGED <<mergeVars, auxVars, oracle, hasCheckpointer, template, lstate, ready, pending, writes,
                   step, lhead, checkpoints, headSnap, execCount, sched, resumedFrom,
                   crashed>>

\* resume_execution: ValueError for an execution that is not found or not
\* PAUSED; the route answers 400
ResumeReject ==
    /\ ~ResumeAccepted(status)
    /\ ResumeAtRest
    /\ pc' = [pc EXCEPT !["resume"] = "rejected"]
    /\ UNCHANGED <<mergeVars, auxVars, oracle, hasCheckpointer, template, status, lstate, ready, pending,
                   writes, step, lhead, checkpoints, headSnap, execCount, sched, resumedFrom,
                   resumes, crashed>>

\* BaseWorkflow.resume: aget_state raises without a checkpointer or a
\* checkpoint; ainvoke(None) continues from the head checkpoint of the thread
ResumeLoad ==
    /\ pc["resume"] = "loading"
    /\ IF template \notin Graphs \/ ~hasCheckpointer \/ checkpoints = <<>>
       THEN /\ pc' = [pc EXCEPT !["resume"] = "raised"]
            /\ UNCHANGED <<lstate, ready, pending, writes, step, lhead, sched,
                           resumedFrom, execCount>>
       ELSE LET row == checkpoints[Len(checkpoints)]
                h == [ id |-> row.id, step |-> row.step,
                       values |-> headSnap.values, next |-> headSnap.next ]
            IN /\ lstate' = [lstate EXCEPT !["resume"] = h.values]
               /\ ready' = [ready EXCEPT !["resume"] = h.next]
               /\ pending' = [pending EXCEPT !["resume"] = h.next]
               /\ writes' = [writes EXCEPT !["resume"] = <<>>]
               /\ step' = [step EXCEPT !["resume"] = h.step + 1]
               /\ lhead' = [lhead EXCEPT !["resume"] = h.id]
               /\ sched' = [sched EXCEPT !["resume"] =
                              IF h.next = {} THEN <<>> ELSE <<h.next>>]
               /\ execCount' = [execCount EXCEPT !["resume"] = NoCounts]
               /\ resumedFrom' = h.step
               /\ pc' = [pc EXCEPT !["resume"] =
                           IF h.next = {} THEN "returned" ELSE "superstep"]
    /\ UNCHANGED <<mergeVars, auxVars, oracle, hasCheckpointer, template, status, checkpoints, headSnap,
                   resumes, crashed>>

\* the process dies while the run is in flight: its tasks are gone, the
\* execution record and the checkpoint store stay as they are
Crash ==
    /\ ~crashed
    /\ pc["run"] = "superstep"
    /\ pc["resume"] = "idle"
    /\ crashed' = TRUE
    /\ pc' = [pc EXCEPT !["run"] = "dead"]
    /\ lstate' = [lstate EXCEPT !["run"] = InitialState]
    /\ ready' = [ready EXCEPT !["run"] = {}]
    /\ pending' = [pending EXCEPT !["run"] = {}]
    /\ writes' = [writes EXCEPT !["run"] = <<>>]
    /\ UNCHANGED <<mergeVars, auxVars, oracle, hasCheckpointer, template, status, step,
                   lhead, checkpoints, headSnap, execCount, sched, resumedFrom,
                   resumes>>

AllOutcomes == [ok : BOOLEAN, v : 0..(IF MaxWebResults > 2 THEN MaxWebResults ELSE 2)]

Init == EngineInit /\ MergeIdle /\ GateIdle /\ WsInit /\ RouterIdle

\* one start request and the pause and cancel requests that arrive meanwhile
Next ==
    \/ \E t \in Graphs \cup {"custom"} : CreateExecution(t, Free)
    \/ MarkRunning
    \/ RunBegin
    \/ \E n \in AllNodes, o \in AllOutcomes : NodeComplete("run", n, o)
    \/ Commit("run")
    \/ Finish("run")
    \/ Fail("run")
    \/ Pause
    \/ Cancel

Spec == Init /\ [][Next]_vars

\* the same with resume requests and a crash of the process, for node
\* outputs that are fixed per execution

NextResume ==
    \/ \E t \in Graphs : \E orc \in Oracles(t) : CreateExecution(t, orc)
    \/ CreateExecution("custom", Free)
    \/ MarkRunning
    \/ RunBegin
    \/ \E l \in Tasks, n \in AllNodes, o \in AllOutcomes : NodeComplete(l, n, o)
    \/ \E l \in Tasks : Commit(l)
    \/ \E l \in Tasks : Finish(l)
    \/ \E l \in Tasks : Fail(l)
    \/ Pause
    \/ Cancel
    \/ ResumeRequest
    \/ ResumeReject
    \/ ResumeLoad
    \/ Crash

ResumeSpec == Init /\ [][NextResume]_vars

-----------------------------------------------------------------------------
(* The query safety gate of the data analysis template                     *)
(* (templates/data_analysis_agent.py).  A query is the sequence of its     *)
(* tokens: words, numbers and punctuation, without quote characters.       *)

DANGEROUS_SQL_KEYWORDS ==
    {"DROP", "DELETE", "INSERT", "UPDATE", "TRUNCATE", "ALTER", "CREATE",
     "GRANT", "REVOKE", "EXEC", "EXECUTE", "CALL", "INTO OUTFILE",
     "LOAD_FILE", "COPY", "pg_read_file", "pg_write_file"}

ALLOWED_TABLES ==
    {"cost_tracking_daily", "budget_alerts", "routing_decisions",
     "workflow_executions", "workflow_steps"}

MAX_QUERY_LIMIT == 1000

\* the words of the queries in lower and in upper case
CasePairs ==
    { <<"select", "SELECT">>, <<"drop", "DROP">>, <<"limit", "LIMIT">>,
      <<"from", "FROM">>, <<"secrets", "SECRETS">>, <<"budgets", "BUDGETS">>,
      <<"users", "USERS">>, <<"model", "MODEL">>,
      <<"total_cost", "TOTAL_COST">>,
      <<"budget_alerts", "BUDGET_ALERTS">>,
      <<"cost_tracking_daily", "COST_TRACKING_DAILY">>,
      <<"routing_decisions", "ROUTING_DECISIONS">>,
      <<"workflow_executions", "WORKFLOW_EXECUTIONS">>,
      <<"workflow_steps", "WORKFLOW_STEPS">> }

\* str.upper and str.lower of a token
Upper(t) ==
    IF \E p \in CasePairs : p[1] = t
    THEN (CHOOSE p \in CasePairs : p[1] = t)[2] ELSE t

Lower(t) ==
    IF \E p \in CasePairs : p[2] = t
    THEN (CHOOSE p \in CasePairs : p[2] = t)[1] ELSE t

Punctuation == {"*", ",", ";", "(", ")", "--", "/*", "*/"}

\* int() of a token of digits, -1 for any other token
NumberOf(t) ==
    CASE t = "10" -> 10
      [] t = "50" -> 50
      [] t = "1000" -> 1000
      [] t = "5000" -> 5000
      [] OTHER -> -1

\* the token matches [a-zA-Z_][a-zA-Z0-9_]*
IsWord(t) == t \notin Punctuation /\ NumberOf(t) = -1

\* the positions where LIMIT\s+(\d+) matches
LimitMatches(up) ==
    { i \in 1..(Len(up) - 1) : up[i] = "LIMIT" /\ NumberOf(up[i + 1]) >= 0 }

Min(S) == CHOOSE x \in S : \A y \in S : x <= y

\* faulty variant of validate_sql_query: only the SELECT prefix is checked
validate_prefix_only(sql) ==
    IF sql = <<>> \/ Upper(sql[1]) # "SELECT"
    THEN [ ok |-> FALSE, msg |-> "Only SELECT queries are allowed" ]
    ELSE [ ok |-> TRUE, msg |-> "" ]

validate_sql_query(sql) ==
    LET up == [i \in 1..Len(sql) |-> Upper(sql[i])]
        n == Len(up)
    IN IF sql = <<>>
       THEN [ ok |-> FALSE, msg |-> "Empty SQL query" ]
       ELSE IF up[1] # "SELECT"
       THEN [ ok |-> FALSE, msg |-> "Only SELECT queries are allowed" ]
       ELSE IF \/ \E i \in 1..n : up[i] \in DANGEROUS_SQL_KEYWORDS
               \/ \E i \in 1..(n - 1) : up[i] = "INTO" /\ up[i + 1] = "OUTFILE"
       THEN [ ok |-> FALSE, msg |-> "Dangerous SQL keyword detected" ]
       ELSE IF \/ \E i \in 1..(n - 1) :
                     /\ up[i] = ";"
                     /\ up[i + 1] \in {"SELECT", "DROP", "DELETE", "INSERT", "UPDATE"}
               \/ \E i \in 1..n : up[i] = "--"
               \/ \E i \in 1..n : \E j \in (i + 1)..n :
                     up[i] = "/*" /\ up[j] = "*/"
               \/ \E i \in 1..(n - 2) :
                     up[i] = "UNION" /\ up[i + 1] = "ALL" /\ up[i + 2] = "SELECT"
       THEN [ ok |-> FALSE, msg |-> "Potential SQL injection pattern detected" ]
       ELSE IF \E i \in 1..(n - 1) :
                     /\ up[i] \in {"FROM", "JOIN"}
                     /\ IsWord(up[i + 1])
                     /\ Lower(up[i + 1]) \notin ALLOWED_TABLES
       THEN [ ok |-> FALSE, msg |-> "Table is not in the allowed list" ]
       ELSE IF LimitMatches(up) = {}
       THEN [ ok |-> FALSE, msg |-> "Query must include a LIMIT clause" ]
       ELSE IF NumberOf(up[Min(LimitMatches(up)) + 1]) > MAX_QUERY_LIMIT
       THEN [ ok |-> FALSE, msg |-> "LIMIT exceeds maximum allowed" ]
       ELSE [ ok |-> TRUE, msg |-> "" ]

\* sql.rstrip(';')
RECURSIVE RStripSemicolons(_)
RStripSemicolons(sql) ==
    IF sql # <<>> /\ sql[Len(sql)] = ";"
    THEN RStripSemicolons(SubSeq(sql, 1, Len(sql) - 1)) ELSE sql

sanitize_sql_query(sql) ==
    LET q == RStripSemicolons(sql)
    IN IF \E i \in 1..Len(q) : Upper(q[i]) = "LIMIT"
       THEN q ELSE q \o <<"LIMIT", "1000">>

\* faulty variant of QueryDataEntry: the query is posted before it is validated
QueryDataPostFirst(q) ==
    IF q = <<>>
    THEN [ pc |-> "returned", calls |-> <<>>,
           delta |-> [ error |-> "No SQL query generated",
                       should_continue |-> FALSE ] ]
    ELSE IF ~validate_sql_query(q).ok
    THEN [ pc |-> "returned", calls |-> <<sanitize_sql_query(q)>>,
           delta |-> [ error |-> "SQL validation failed",
                       should_continue |-> FALSE, query_results |-> <<>> ] ]
    ELSE [ pc |-> "awaiting", calls |-> <<sanitize_sql_query(q)>>,
           delta |-> <<>> ]

\* _query_data up to its await: where it stands then, what it has posted to
\* the MCP client, and what it returned if it returned
QueryDataEntry(q) ==
    IF q = <<>>
    THEN [ pc |-> "returned", calls |-> <<>>,
           delta |-> [ error |-> "No SQL query generated",
                       should_continue |-> FALSE ] ]
    ELSE IF ~validate_sql_query(q).ok
    THEN [ pc |-> "returned", calls |-> <<>>,
           delta |-> [ error |-> "SQL validation failed",
                       should_continue |-> FALSE, query_results |-> <<>> ] ]
    ELSE [ pc |-> "awaiting", calls |-> <<sanitize_sql_query(q)>>,
           delta |-> <<>> ]

\* what mcp_client.post did: 200 with no row or one row, another status, raised
Responses == {"empty", "rows", "not200", "raised"}

\* _query_data after its await
QueryDataExit(resp) ==
    CASE resp = "raised" ->
           [ query_results |-> <<>>, current_node |-> "query_data" ]
      [] resp = "not200" ->
           [ query_results |-> <<"demo", "demo">>,
             intermediate_results |-> { <<"row_count", 2>> },
             current_node |-> "query_data" ]
      [] resp = "rows" ->
           [ query_results |-> <<"row">>,
             intermediate_results |-> { <<"row_count", 1>> },
             current_node |-> "query_data" ]
      [] OTHER ->
           [ query_results |-> <<>>,
             intermediate_results |-> { <<"row_count", 0>> },
             current_node |-> "query_data" ]

\* the queries of the scenarios
QueryTwoStatements ==
    <<"SELECT", "*", "FROM", "budgets", ";", "DROP", "TABLE", "users", ";">>

QueryForeignTable == <<"SELECT", "*", "FROM", "secrets", "LIMIT", "10">>

QueryAllowed ==
    <<"SELECT", "model", ",", "SUM", "(", "total_cost", ")", "FROM",
      "cost_tracking_daily", "GROUP", "BY", "model", "LIMIT", "50">>

\* a LIMIT within the allowed range in a subquery, a larger one on the statement
QueryTwoLimits ==
    <<"SELECT", "*", "FROM", "budget_alerts", "WHERE", "id", "IN", "(", "SELECT",
      "id", "FROM", "budget_alerts", "LIMIT", "10", ")", "LIMIT", "5000">>

\* most tokens of a generated query besides the scenarios
MaxTokens == 4

Vocabulary ==
    {"select", "FROM", "secrets", "budget_alerts", "LIMIT", "50", "5000", ";"}

Queries ==
    {QueryTwoStatements, QueryForeignTable, QueryAllowed, QueryTwoLimits}
        \cup UNION { [1..n -> Vocabulary] : n \in 0..MaxTokens }

GateInit ==
    /\ EngineInit
    /\ MergeIdle
    /\ gQuery \in Queries
    /\ gpc = "start"
    /\ gDelta = <<>>
    /\ gCalls = <<>>
    /\ WsInit
    /\ RouterIdle

QueryDataCall ==
    /\ gpc = "start"
    /\ LET r == QueryDataEntry(gQuery)
       IN /\ gpc' = r.pc
          /\ gCalls' = gCalls \o r.calls
          /\ gDelta' = r.delta
    /\ UNCHANGED <<engineVars, mergeVars, routerVars, wsVars, gQuery>>

QueryDataReturn(resp) ==
    /\ gpc = "awaiting"
    /\ gDelta' = QueryDataExit(resp)
    /\ gpc' = "returned"
    /\ UNCHANGED <<engineVars, mergeVars, routerVars, wsVars, gQuery, gCalls>>

GateNext ==
    \/ QueryDataCall
    \/ \E resp \in Responses : QueryDataReturn(resp)

GateSpec == GateInit /\ [][GateNext]_vars

-----------------------------------------------------------------------------
(* The execution stream (api/websocket.py): the ConnectionManager, the     *)
(* endpoint coroutine of each connection, and the tasks that call          *)
(* send_execution_update.  The sections under self._lock contain no await  *)
(* and are single steps.                                                   *)

\* the registry with key t set to S
RegPut(t, S) == [k \in DOMAIN reg \cup {t} |-> IF k = t THEN S ELSE reg[k]]

\* the registry without key t
RegDel(t) == [k \in DOMAIN reg \ {t} |-> reg[k]]

\* websocket_endpoint: manager.connect, then the "connected" message
Connect(c) ==
    /\ sock[c] = "new"
    /\ sock' = [sock EXCEPT ![c] = "open"]
    /\ reg' = LET t == ConnThread(c)
              IN RegPut(t, (IF t \in DOMAIN reg THEN reg[t] ELSE {}) \cup {c})
    /\ endpointSent' = <<JsonMessage("connected", ConnThread(c), 0)>>
    /\ UNCHANGED <<engineVars, mergeVars, routerVars, gateVars, recv, pub, bc>>

\* websocket_endpoint: a text from the client is answered with pong or echoed
ClientText(c, data) ==
    /\ sock[c] = "open"
    /\ endpointSent' = <<IF data = "ping" THEN PongText
                          ELSE JsonMessage("echo", None, 0)>>
    /\ UNCHANGED <<engineVars, mergeVars, routerVars, gateVars, reg, sock, recv, pub, bc>>

\* websocket_endpoint: no text for 30 s
KeepAlive(c) ==
    /\ sock[c] = "open"
    /\ endpointSent' = <<JsonMessage("keepalive", None, 0)>>
    /\ UNCHANGED <<engineVars, mergeVars, routerVars, gateVars, reg, sock, recv, pub, bc>>

\* the client stops reading: sends to it do not return
Stall(c) ==
    /\ sock[c] = "open"
    /\ sock' = [sock EXCEPT ![c] = "stalled"]
    /\ UNCHANGED <<engineVars, mergeVars, routerVars, gateVars, reg, recv, pub, bc, endpointSent>>

Unstall(c) ==
    /\ sock[c] = "stalled"
    /\ sock' = [sock EXCEPT ![c] = "open"]
    /\ UNCHANGED <<engineVars, mergeVars, routerVars, gateVars, reg, recv, pub, bc, endpointSent>>

\* the connection is lost: sends to it raise
CloseSocket(c) ==
    /\ sock[c] \in {"open", "stalled"}
    /\ sock' = [sock EXCEPT ![c] = "closed"]
    /\ UNCHANGED <<engineVars, mergeVars, routerVars, gateVars, reg, recv, pub, bc, endpointSent>>

\* websocket_endpoint: finally manager.disconnect
Disconnect(c) ==
    /\ sock[c] = "closed"
    /\ sock' = [sock EXCEPT ![c] = "gone"]
    /\ reg' = LET t == ConnThread(c)
              IN IF t \notin DOMAIN reg THEN reg
                 ELSE IF reg[t] \ {c} = {} THEN RegDel(t)
                 ELSE RegPut(t, reg[t] \ {c})
    /\ UNCHANGED <<engineVars, mergeVars, routerVars, gateVars, recv, pub, bc, endpointSent>>

\* connection.send_text reaches the stream of the connection at the call;
\* a connection that is lost takes nothing
Written(c, m) ==
    IF sock[c] \in {"open", "stalled"}
    THEN [recv EXCEPT ![c] = Append(@, m)]
    ELSE recv

\* a broadcast that takes the connections of every execution
ConnectionsOfAll(t) == UNION { reg[k] : k \in DOMAIN reg }

\* broadcast: self.active_connections.get(execution_id, set()).copy()
Connections(t) == IF t \in DOMAIN reg THEN reg[t] ELSE {}

\* send_execution_update -> broadcast: the copy of the connections under the
\* lock, then the loop up to its first await: the send to the connection the
\* set iterates first
BroadcastBegin(p, t, ty) ==
    /\ bc[p].pc = "idle"
    /\ Len(pub) < MaxPublishes
    /\ LET m == JsonMessage(ty, t, Len(pub) + 1)
           connections == Connections(t)
       IN /\ pub' = Append(pub, m)
          /\ IF connections = {}
             THEN /\ bc' = [bc EXCEPT ![p] = IdleBroadcast]
                  /\ UNCHANGED recv
             ELSE \E c \in connections :
                  /\ bc' = [bc EXCEPT ![p] =
                              [ pc |-> "sending", thread |-> t, msg |-> m,
                                conns |-> connections, cur |-> c,
                                todo |-> connections \ {c}, failed |-> {} ]]
                  /\ recv' = Written(c, m)
    /\ UNCHANGED <<engineVars, mergeVars, routerVars, gateVars, reg, sock, endpointSent>>

\* the connections whose send raised, after the awaited send is over
Failed(p) ==
    bc[p].failed \cup (IF sock[bc[p].cur] = "open" THEN {} ELSE {bc[p].cur})

\* broadcast: the awaited send returns or raises, and the loop goes on to the
\* connection the set iterates next
BroadcastNext(p, c) ==
    /\ bc[p].pc = "sending"
    /\ sock[bc[p].cur] # "stalled"
    /\ c \in bc[p].todo
    /\ bc' = [bc EXCEPT ![p].cur = c, ![p].todo = @ \ {c}, ![p].failed = Failed(p)]
    /\ recv' = Written(c, bc[p].msg)
    /\ UNCHANGED <<engineVars, mergeVars, routerVars, gateVars, reg, sock, pub, endpointSent>>

\* broadcast: the last awaited send returns or raises; the failed connections
\* are taken out of the set
BroadcastEnd(p) ==
    /\ bc[p].pc = "sending"
    /\ sock[bc[p].cur] # "stalled"
    /\ bc[p].todo = {}
    /\ reg' = LET t == bc[p].thread
              IN IF Failed(p) # {} /\ t \in DOMAIN reg
                 THEN RegPut(t, reg[t] \ Failed(p)) ELSE reg
    /\ bc' = [bc EXCEPT ![p] = IdleBroadcast]
    /\ UNCHANGED <<engineVars, mergeVars, routerVars, gateVars, sock, recv, pub, endpointSent>>

WsSpecInit == EngineInit /\ MergeIdle /\ GateIdle /\ WsInit /\ RouterIdle

\* the manager under concurrent connects, disconnects and broadcasts
WsNext ==
    \/ \E c \in Conns : Connect(c)
    \/ \E c \in SlowConns : Stall(c)
    \/ \E c \in SlowConns : Unstall(c)
    \/ \E c \in Conns : CloseSocket(c)
    \/ \E c \in Conns : Disconnect(c)
    \/ \E p \in Publishers, t \in Threads : BroadcastBegin(p, t, "status")
    \/ \E p \in Publishers, c \in Conns : BroadcastNext(p, c)
    \/ \E p \in Publishers : BroadcastEnd(p)

WsSpec == WsSpecInit /\ [][WsNext]_vars

\* everything a connected client can be sent: the endpoint's replies and one
\* task's updates
EndpointNext ==
    \/ \E c \in Conns : Connect(c)
    \/ \E c \in Conns, data \in {"ping", "hello"} : ClientText(c, data)
    \/ \E c \in Conns : KeepAlive(c)
    \/ \E t \in Threads, ty \in UpdateTypes : BroadcastBegin("p1", t, ty)
    \/ \E c \in Conns : BroadcastNext("p1", c)
    \/ BroadcastEnd("p1")

EndpointSpec == WsSpecInit /\ [][EndpointNext]_vars

-----------------------------------------------------------------------------
(* The reducers on their own: the deltas of one superstep merged into a    *)
(* base state in the order given and in a permuted order                   *)

\* the partial state of a node that adds c to the sum field and, for c > 0,
\* returns the one-element list <<c>> for the list field
SumAppendDelta(c) ==
    [ count |-> c, search_results |-> IF c = 0 THEN <<>> ELSE <<c>> ]

RECURSIVE MergeAll(_, _)
MergeAll(st, ds) ==
    IF ds = <<>> THEN st ELSE MergeAll(Merge(st, Head(ds)), Tail(ds))

Orders(n) ==
    { f \in [1..n -> 1..n] : \A i, j \in 1..n : f[i] = f[j] => i = j }

MergeInit ==
    /\ EngineInit
    /\ \E c \in 0..MaxSummand, r \in {<<>>, <<0>>} :
           mBase = [InitialState EXCEPT !.count = c, !.search_results = r]
    /\ \E n \in 0..MaxDeltas :
           /\ mDeltas \in [1..n -> { SumAppendDelta(c) : c \in 0..MaxSummand }]
           /\ mPerm \in Orders(n)
    /\ mOut1 = mBase
    /\ mOut2 = mBase
    /\ mpc = "start"
    /\ GateIdle
    /\ WsInit
    /\ RouterIdle

MergeInOrder ==
    /\ mpc = "start"
    /\ mOut1' = MergeAll(mBase, mDeltas)
    /\ mpc' = "first"
    /\ UNCHANGED <<engineVars, auxVars, mBase, mDeltas, mPerm, mOut2>>

MergePermuted ==
    /\ mpc = "first"
    /\ mOut2' = MergeAll(mBase, [i \in 1..Len(mDeltas) |-> mDeltas[mPerm[i]]])
    /\ mpc' = "done"
    /\ UNCHANGED <<engineVars, auxVars, mBase, mDeltas, mPerm, mOut1>>

MergeNext ==
    \/ MergeInOrder
    \/ MergePermuted

MergeSpec == MergeInit /\ [][MergeNext]_vars

\* the run's task is scheduled as long as it has a step to take: every
\* await of start_execution returns
RunProgress ==
    \/ MarkRunning
    \/ RunBegin
    \/ \E n \in AllNodes, o \in AllOutcomes : NodeComplete("run", n, o)
    \/ Commit("run")
    \/ Finish("run")
    \/ Fail("run")

FairSpec == Init /\ [][Next]_vars /\ WF_vars(RunProgress)

-----------------------------------------------------------------------------
(* Graph structure read off the add_edge / add_conditional_edges calls *)

\* the targets a conditional edge can select
CondEdges(g) ==
    IF g = "coding"
    THEN { <<"analyze_code", PathMap(r)>> : r \in {"iterate", "finalize"} }
    ELSE {}

Preds(g, n) == { e[1] : e \in { d \in Edges(g) : d[2] = n } }

\* nodes with two or more add_edge predecessors
JoinNodes(g) == { n \in Nodes(g) : Cardinality(Preds(g, n)) >= 2 }

RECURSIVE ReachableFrom(_, _, _)
ReachableFrom(g, seen, k) ==
    IF k = 0 THEN seen
    ELSE ReachableFrom(g,
             seen \cup { e[2] : e \in { d \in Edges(g) \cup CondEdges(g) :
                                          d[1] \in seen /\ d[2] # END } },
             k - 1)

Acyclic(g) ==
    \A n \in Nodes(g) :
        n \notin ReachableFrom(g,
                     { e[2] : e \in { d \in Edges(g) \cup CondEdges(g) :
                                        d[1] = n /\ d[2] # END } },
                     Cardinality(Nodes(g)))

\* the run's ainvoke has ended, by returning or by raising
RunEnded == pc["run"] \in {"returned", "raised", "done"}

-----------------------------------------------------------------------------
(* Properties *)

\* C1 (as stated): in a coding run generate_code, the node of the cycle
\* guarded by MAX_ITERATIONS = 5, never executes a 6th time, whatever the
\* outcomes of the node calls are.
C1_CycleBound ==
    template = "coding" => execCount["run"]["generate_code"] <= MAX_ITERATIONS

C3_AcyclicTerminates ==
    /\ [](template \in Graphs /\ Acyclic(template) =>
            /\ step["run"] <= Cardinality(Nodes(template))
            /\ pc["run"] # "raised")
    /\ ((pc["run"] = "superstep" /\ Acyclic(template)) ~> (pc["run"] = "done"))

C3_Witness ==
    /\ template = "data_analysis"
    /\ Acyclic(template)
    /\ pc["run"] = "done"
    /\ step["run"] = Cardinality(Nodes(template))
    /\ status = "completed"

FanOutReturned ==
    /\ template = "research"
    /\ pc["run"] = "superstep"
    /\ ready["run"] = {"search_web", "search_database"}
    /\ pending["run"] = {}
    /\ lstate["run"].search_results = <<>>
    /\ \A i \in 1..Len(writes["run"]) :
           /\ "search_results" \in DOMAIN writes["run"][i].delta
           /\ Len(writes["run"][i].delta.search_results) = 1

\* C5: when the two nodes of a fan-out each write one element into the
\* append field in the same superstep, the field has length 2 after the
\* superstep is merged, whichever of the two returned first.
C5_FanOutAppend ==
    [][ (FanOutReturned /\ writes'["run"] = <<>>) =>
            Len(lstate'["run"].search_results) = 2 ]_vars

\* search_web returned before search_database, and the superstep is merged
C5_Witness ==
    /\ template = "research"
    /\ Len(sched["run"]) = 3
    /\ sched["run"][3] = {"analyze_results"}
    /\ lstate["run"].search_results = <<"db", "web">>

\* C6 (as stated): once the execution is cancelled while its run is in
\* flight no further superstep is scheduled (so no checkpoint follows the one
\* of the superstep in flight), and the run's task does not replace the
\* status when it finishes.
C6_CancelStops ==
    [][ (status = "cancelled" /\ pc["run"] \in {"superstep", "returned", "raised"}) =>
            /\ Len(sched'["run"]) = Len(sched["run"])
            /\ (pc["run"] # "done" /\ pc'["run"] = "done"
                    => status' = "cancelled") ]_vars

\* C10 (as stated): an execution one of whose nodes returned an error is
\* never Completed.
C10_NodeErrorFails ==
    lstate["run"].error # None => status # "completed"

Occurrences(q, e) == Cardinality({ i \in 1..Len(q) : q[i] = e })

LifecycleEdges ==
    { <<"none", "pending">>, <<"pending", "running">>,
      <<"running", "paused">>, <<"running", "completed">>,
      <<"running", "failed">>, <<"running", "cancelled">>,
      <<"paused", "running">> }

\* C11 (as stated): under every interleaving of start, pause, resume and
\* cancel requests the status changes only along PENDING -> RUNNING,
\* RUNNING -> {PAUSED, COMPLETED, FAILED, CANCELLED} and PAUSED -> RUNNING;
\* a COMPLETED, FAILED or CANCELLED status never changes again.
C11_StatusLifecycle ==
    [][ status' # status => <<status, status'>> \in LifecycleEdges ]_vars

\* the rows of the checkpoint store before a step are still there after it
CheckpointsKept ==
    /\ Len(checkpoints') >= Len(checkpoints)
    /\ \A i \in 1..Len(checkpoints) : checkpoints'[i] = checkpoints[i]

\* C12 (as stated): while the status is PAUSED no new superstep is scheduled
\* and no node is started for the thread, and the thread's existing
\* checkpoints are left unchanged.
C12_PauseStopsScheduling ==
    [][ status = "paused" => (sched' = sched /\ CheckpointsKept) ]_vars

\* _query_data has returned an error with nothing posted to the MCP client
GateRejected ==
    /\ gpc = "returned"
    /\ "error" \in DOMAIN gDelta
    /\ gDelta.should_continue = FALSE
    /\ gCalls = <<>>

\* C13: whenever validate_sql_query rejects the generated query, query_data
\* returns an error and posts nothing to the MCP client in that execution.
C13_RejectedNeverCalls ==
    (gpc # "start" /\ ~validate_sql_query(gQuery).ok) => GateRejected

\* a generated query with an injection pattern has been turned down
C13_Witness ==
    /\ gQuery = <<"select", ";", "select", "LIMIT">>
    /\ validate_sql_query(gQuery).msg = "Potential SQL injection pattern detected"
    /\ GateRejected
    /\ gDelta.error = "SQL validation failed"

\* C14: the query with a second statement after ';' is rejected, the query
\* on a table outside the allow-list is rejected, and the read-only query on
\* an allow-listed table with LIMIT 50 is posted to the MCP client unchanged.
C14_GateDecisions ==
    gpc # "start" =>
        /\ gQuery \in {QueryTwoStatements, QueryForeignTable} => GateRejected
        /\ gQuery = QueryAllowed => gCalls = <<QueryAllowed>>

C14_Witness ==
    /\ gQuery = QueryAllowed
    /\ gpc = "returned"
    /\ gCalls = <<QueryAllowed>>
    /\ gDelta.query_results = <<"row">>

\* the rows of the thread form one chain in put order
LinearChain ==
    checkpoints # <<>> =>
        /\ Cardinality({ i \in 1..Len(checkpoints) : checkpoints[i].parent = 0 }) = 1
        /\ \A i \in 2..Len(checkpoints) :
               checkpoints[i].parent = checkpoints[i - 1].id
        /\ \A i, j \in 1..Len(checkpoints) :
               i # j => /\ checkpoints[i].id # checkpoints[j].id
                        /\ checkpoints[i].parent # checkpoints[j].parent

\* C15 (as stated): in every reachable state the checkpoints of the thread
\* form one linear chain: exactly one has no parent, every other one's parent
\* is the checkpoint that was the head when it was written, no two share a
\* parent, ids are unique, and a stored checkpoint is never changed or removed.
C15_CheckpointChain ==
    /\ []LinearChain
    /\ [][CheckpointsKept]_vars

\* the loop of task l is in flight and puts a checkpoint after each superstep
Writing(l) == hasCheckpointer /\ pc[l] = "superstep"

\* C16 (as stated): at no time are two executor loops, the run still in
\* flight after a pause request and a resume of the same execution, writing
\* checkpoints for the same thread id.
C16_SingleWriter == ~(Writing("run") /\ Writing("resume"))

\* C17 (as stated): every node of a superstep is passed the same
\* pre-superstep state, and the state passed to a node is unchanged by the
\* node's execution (token and cost bookkeeping included).
C17_SnapshotIsolation ==
    \A l \in Tasks : \A i \in 1..Len(writes[l]) :
        /\ writes[l][i].arg = lstate[l]
        /\ writes[l][i].left = writes[l][i].arg

-----------------------------------------------------------------------------
\* a broadcast held at the send to a connection that does not take it
Waiting(p) ==
    /\ bc[p].pc = "sending"
    /\ sock[bc[p].cur] = "stalled"

(* C18: a publish completes without waiting for any subscriber: no task     *)
(* that called broadcast is ever held at the send to a subscriber that      *)
(* does not accept the event.                                               *)
C18_PublishNeverWaits ==
    \A p \in Publishers : ~Waiting(p)

(* C19: the events a subscriber receives are events published for its       *)
(* thread, in the order of their publication, also when the publishes come  *)
(* from concurrent tasks.                                                   *)
C19_SubscriberOrder ==
    \A c \in Conns :
        /\ \A i \in 1..Len(recv[c]) :
              /\ recv[c][i].seq \in 1..Len(pub)
              /\ pub[recv[c][i].seq] = recv[c][i]
              /\ recv[c][i].execution_id = ConnThread(c)
        /\ \A i, j \in 1..Len(recv[c]) : i < j => recv[c][i].seq < recv[c][j].seq

\* the message types of the stream protocol
MessageTypes ==
    {"connected", "status", "node_start", "node_complete", "output", "error", "keepalive"}

WellFormed(m) ==
    \/ m = PongText
    \/ /\ m.json
       /\ m.type \in MessageTypes
       /\ m.execution_id # None

(* C20: every message the server sends on a socket is a JSON object with a  *)
(* type of the protocol and the execution id, the literal pong excepted.    *)
C20_MessageVocabulary ==
    /\ \A i \in 1..Len(endpointSent) : WellFormed(endpointSent[i])
    /\ \A c \in Conns : \A i \in 1..Len(recv[c]) : WellFormed(recv[c][i])

-----------------------------------------------------------------------------
(* C21: a request whose graph cannot be resolved starts nothing: there is   *)
(* an execution record, in any status, only for a template that has a       *)
(* graph, and no node ever runs for another one.                            *)
C21_StructuralErrorStartsNothing ==
    template \notin Graphs =>
        /\ status = "none"
        /\ \A l \in Tasks : sched[l] = <<>>

-----------------------------------------------------------------------------
\* the store holds a checkpoint of superstep k
Persisted(k) ==
    \E i \in 1..Len(checkpoints) : checkpoints[i].step = k

(* C22: an execution is never completed having run a superstep whose        *)
(* checkpoint is not in the store.                                          *)
C22_CompletedIsDurable ==
    status = "completed" =>
        \A l \in Tasks : \A k \in 1..Len(sched[l]) : Persisted(k)

-----------------------------------------------------------------------------
\* a step in which the resume handler answers a request
ResumeAnswered == ResumeAtRest /\ pc'["resume"] # pc["resume"]

(* C23: a resume request for an execution that does not exist or is not     *)
(* PAUSED is rejected, and the status, the state, the checkpoints and the   *)
(* scheduled nodes are as they were before it.                              *)
C23_ResumePrecondition ==
    [][ (status # "paused" /\ ResumeAnswered) =>
            /\ pc'["resume"] = "rejected"
            /\ UNCHANGED <<status, lstate, checkpoints, headSnap, lhead, ready,
                           pending, writes, sched, execCount>> ]_vars

C23_Witness ==
    /\ pc["resume"] = "rejected"
    /\ status = "running"
    /\ pc["run"] = "superstep"
    /\ checkpoints # <<>>

-----------------------------------------------------------------------------
(* C24: when a run has returned, total_tokens of its final state is the     *)
(* sum of the token usage reported by the model calls whose deltas were     *)
(* merged.                                                                  *)
C24_TokenTotalsAreSums ==
    pc["run"] \in {"returned", "done"} =>
        lstate["run"].total_tokens = tokensReported

-----------------------------------------------------------------------------
(* C25: once the merged state of a run has should_continue = false, no      *)
(* further superstep is scheduled in that run, whatever edges the node      *)
(* that set it has.                                                         *)
C25_ShouldContinueOverrides ==
    [][ lstate'["run"].should_continue = FALSE =>
            Len(sched'["run"]) = Len(sched["run"]) ]_vars

-----------------------------------------------------------------------------
(* The routers (graphs/edges.py, graphs/nodes.py router_node,              *)
(* CodingAgentWorkflow._should_iterate), each called twice in a row on the *)
(* same state object.                                                      *)

Routers ==
    {"should_continue", "check_iteration_limit", "coding_router", "research_router",
     "data_analysis_router", "error_router", "router_node", "_should_iterate"}

\* the fields the routers read
RouterStates ==
    [ error : {None, "err"},
      should_continue : BOOLEAN,
      iteration_count : 0..(MAX_ITERATIONS + 1),
      code_analysis : {None, "ok", "issues"},
      search_results : {Rep(0), Rep(1), Rep(3)},
      analysis : {None, "txt"},
      query_results : {None, "rows"},
      visualization : {None, "chart"} ]

should_continue(st) ==
    IF st.error # None THEN "end"
    ELSE IF ~st.should_continue THEN "end"
    ELSE "continue"

check_iteration_limit(st) ==
    IF st.iteration_count >= 5 THEN "end" ELSE "continue"

coding_router(st) ==
    IF st.iteration_count >= 5 THEN "finalize"
    ELSE IF st.code_analysis = "issues" THEN "analyze"
    ELSE "finalize"

research_router(st) ==
    IF st.search_results = <<>> THEN "search_more"
    ELSE IF st.analysis = None THEN "analyze"
    ELSE IF Len(st.search_results) < 3 /\ st.iteration_count < 3 THEN "search_more"
    ELSE "report"

data_analysis_router(st) ==
    IF st.query_results = None THEN "query"
    ELSE IF st.analysis = None THEN "analyze"
    ELSE IF st.visualization = None THEN "visualize"
    ELSE "summarize"

error_router(st) ==
    IF st.error = None THEN "end"
    ELSE IF st.iteration_count < 3 THEN "retry"
    ELSE "escalate"

\* a conditions dict as a caller of router_node passes it: the targets in
\* insertion order, and the predicate of each
ConditionTargets == <<"retry", "finish">>

ConditionHolds(target, st) ==
    CASE target = "retry" -> st.error # None
      [] target = "finish" -> ~st.should_continue

RECURSIVE router_node(_, _, _)
router_node(st, conditions, default) ==
    IF conditions = <<>> THEN default
    ELSE IF ConditionHolds(Head(conditions), st) THEN Head(conditions)
    ELSE router_node(st, Tail(conditions), default)

\* the target router r returns for state st
Route(r, st) ==
    CASE r = "should_continue" -> should_continue(st)
      [] r = "check_iteration_limit" -> check_iteration_limit(st)
      [] r = "coding_router" -> coding_router(st)
      [] r = "research_router" -> research_router(st)
      [] r = "data_analysis_router" -> data_analysis_router(st)
      [] r = "error_router" -> error_router(st)
      [] r = "router_node" -> router_node(st, ConditionTargets, "end")
      [] r = "_should_iterate" -> should_iterate(st)

\* a router that counts its calls in the state, as a node would
RouterCounts(r, st) == [st EXCEPT !.iteration_count = @ + 1]

\* the state object after the call of router r: no router assigns to it
RouterLeaves(r, st) == st

\* the calls router r makes to the LLM or MCP client: none
RouterClientCalls(r, st) == <<>>

RouterInit ==
    /\ EngineInit
    /\ MergeIdle
    /\ GateIdle
    /\ WsInit
    /\ rRouter \in Routers
    /\ rArg \in RouterStates
    /\ rState = rArg
    /\ rOut = <<>>
    /\ rCalls = <<>>

\* the router is called on the state object
RouterCall ==
    /\ rRouter \in Routers
    /\ Len(rOut) < 2
    /\ rOut' = Append(rOut, Route(rRouter, rState))
    /\ rState' = RouterLeaves(rRouter, rState)
    /\ rCalls' = rCalls \o RouterClientCalls(rRouter, rState)
    /\ UNCHANGED <<engineVars, mergeVars, gateVars, wsVars, rRouter, rArg>>

RouterNext == RouterCall

RouterSpec == RouterInit /\ [][RouterNext]_vars

-----------------------------------------------------------------------------
(* The last_value reducer on its own: deltas that write a value, write     *)
(* None, or do not write the field, folded into a base state                *)

LastValueDeltas ==
    { [output |-> None], [output |-> "a"], [output |-> "b"], [current_node |-> "n"] }

LastInit ==
    /\ EngineInit
    /\ \E b \in {None, "base"} : mBase = [InitialState EXCEPT !.output = b]
    /\ \E n \in 0..MaxDeltas :
           /\ mDeltas \in [1..n -> LastValueDeltas]
           /\ mPerm \in Orders(n)
    /\ mOut1 = mBase
    /\ mOut2 = mBase
    /\ mpc = "start"
    /\ GateIdle
    /\ WsInit
    /\ RouterIdle

LastSpec == LastInit /\ [][MergeNext]_vars

\* the positions of the deltas that write a value other than None to field f
NonNullWrites(ds, f) ==
    { i \in 1..Len(ds) : f \in DOMAIN ds[i] /\ ds[i][f] # None }

\* the greatest element of a non-empty set of numbers
Greatest(S) == CHOOSE i \in S : \A j \in S : j <= i

(* C27: deltas folded in order into a field reduced with last_value give    *)
(* the value of the last delta that wrote a non-null value, and the base    *)
(* value if there is none.                                                  *)
C27_LastWriteWins ==
    mpc # "start" =>
        mOut1.output =
            IF NonNullWrites(mDeltas, "output") = {} THEN mBase.output
            ELSE mDeltas[Greatest(NonNullWrites(mDeltas, "output"))].output

C27_Witness ==
    /\ mpc # "start"
    /\ mBase.output = "base"
    /\ mDeltas = << [output |-> "a"], [current_node |-> "n"], [output |-> None] >>
    /\ mOut1.output = "a"

-----------------------------------------------------------------------------
\* the number of parentheses open at token i of query q
Depth(q, i) ==
    Cardinality({ j \in 1..(i - 1) : q[j] = "(" })
        - Cardinality({ j \in 1..(i - 1) : q[j] = ")" })

\* the LIMIT clauses of the statement itself, not of a subquery
StatementLimits(q) ==
    { i \in 1..(Len(q) - 1) :
        Upper(q[i]) = "LIMIT" /\ NumberOf(q[i + 1]) >= 0 /\ Depth(q, i) = 0 }

(* C28: every query posted to the MCP client limits the size of its result  *)
(* to at most MAX_QUERY_LIMIT rows.                                         *)
C28_BoundedResultSize ==
    \A k \in 1..Len(gCalls) :
        /\ StatementLimits(gCalls[k]) # {}
        /\ \A i \in StatementLimits(gCalls[k]) :
               NumberOf(gCalls[k][i + 1]) <= MAX_QUERY_LIMIT

-----------------------------------------------------------------------------
\* connection c was sent message m
Received(c, m) == \E i \in 1..Len(recv[c]) : recv[c][i] = m

\* a step in which the broadcast of task p returns
Returns(p) == bc[p].pc = "sending" /\ bc'[p].pc = "idle"

(* C29: a message published for an execution is sent to connections of     *)
(* that execution only, and when the broadcast returns every connection    *)
(* that was registered for the execution when it started has been sent the *)
(* message, unless the send to it failed.                                  *)
C29_FanOutByThread ==
    /\ [](\A c \in Conns : \A i \in 1..Len(recv[c]) :
              recv[c][i].execution_id = ConnThread(c))
    /\ [][ \A p \in Publishers : Returns(p) =>
              \A c \in bc[p].conns :
                  Received(c, bc[p].msg) \/ c \in Failed(p) ]_vars

C29_Witness ==
    /\ \A p \in Publishers : bc[p].pc = "idle"
    /\ \A c \in Conns : sock[c] = "open"
    /\ Len(pub) = 1
    /\ pub[1].execution_id = "t1"
    /\ recv = [c \in Conns |-> IF c = "c3" THEN <<>> ELSE <<pub[1]>>]

-----------------------------------------------------------------------------
(* C30: the registry maps no execution id to an empty set, and a            *)
(* connection that was disconnected, or dropped by a broadcast after its    *)
(* send failed, is in no set of the registry.                               *)
C30_RegistryInvariant ==
    /\ \A t \in DOMAIN reg : reg[t] # {}
    /\ \A t \in DOMAIN reg : \A c \in reg[t] : sock[c] # "gone"

====
